---- MODULE Spec2Model ----
(***************************************************************************)
(* Model of the source-railz-ai connector components                       *)
(* (source_railz_ai/components.py):                                        *)
(*   - RailzNestedExtractor              (construction, extract_records)   *)
(*   - RailzCartesianProductStreamSlicer (update_cursor, stream_slices)    *)
(*   - ShortLivedTokenAuthenticator      (check_token / token)             *)
(*                                                                         *)
(* Python mappings are TLA+ functions whose DOMAIN is the set of keys the  *)
(* mapping carries; Python lists are sequences; None is the value None.    *)
(***************************************************************************)
EXTENDS Integers, Sequences, FiniteSets, TLC

VARIABLES
    \* RailzNestedExtractor
    ex_status,          \* "unconstructed" | "constructed"
    nested_fields,      \* self._nested_fields
    propagate_fields,   \* self._propagate_fields
    prefix_key,         \* self._prefix_key ("" models None)
    response,           \* the document of the last extract_records call
    outcome,            \* "none" | "returned" | "raised" : how that call ended
    records,            \* the list that call returned (<<>> when it raised)
    yieldedBefore,      \* what the generator had yielded when the call ended
    \* RailzCartesianProductStreamSlicer
    cursor,             \* self._cursor
    before,             \* self._cursor when the last call started
    call,               \* the last call: its arguments and how it ended
    \* ShortLivedTokenAuthenticator
    auth_status,        \* "unconstructed" | "constructed"
    lifetime,           \* the configured lifetime string
    token,              \* self._token
    timestamp,          \* self._timestamp
    now,                \* the clock time.time() reads
    ticks,              \* how often the clock has advanced
    read                \* the last read of the token property

exVars == <<ex_status, nested_fields, propagate_fields, prefix_key, response,
            outcome, records, yieldedBefore>>

slVars == <<cursor, before, call>>

auVars == <<auth_status, lifetime, token, timestamp, now, ticks, read>>

vars == <<exVars, slVars, auVars>>

----------------------------------------------------------------------------
(* Bounds *)

\* the most objects a document holds below its root
MaxNodes == 5

\* the most slices the outer slice producer yields
MaxSlices == 2

\* how often the clock advances
MaxTicks == 3

\* postedDate values are 1..MaxDate, ordered as the timestamps they stand for
MaxDate == 2

----------------------------------------------------------------------------
(* JSON documents.  An object is [flds, kids]: flds are its scalar fields   *)
(* ("id" on every object, "x" on some), kids are its list-valued fields.    *)
(* The "id" of an object is its index path in the document and the value   *)
(* of its own "x" is that same path, so that every x in a document tells   *)
(* which object it was written on.                                         *)

Range(s) == {s[i] : i \in 1..Len(s)}

NoKids == [k \in {} |-> <<>>]

Flds(id, hx) == IF hx THEN ("id" :> id) @@ ("x" :> id) ELSE ("id" :> id)

Leaf(id, hx) == [flds |-> Flds(id, hx), kids |-> NoKids]

HasSeqs(n) == UNION {[1..k -> BOOLEAN] : k \in 0..n}

LeafList(pid, hs) == [j \in 1..Len(hs) |-> Leaf(pid \o <<j>>, hs[j])]

\* the shape of one element of the "a" list: carries x or not, carries "b"
\* or not, and which of its leaves carry an x of their own
\* (those of at most n objects: the element and its leaves)
AShapes(n) ==
    {[hx |-> h, hasB |-> TRUE, leaves |-> l] : h \in BOOLEAN, l \in HasSeqs(n - 1)}
    \cup {[hx |-> h, hasB |-> FALSE, leaves |-> <<>>] : h \in BOOLEAN}

AObj(i, sh) ==
    [flds |-> Flds(<<i>>, sh.hx),
     kids |-> IF sh.hasB THEN ("b" :> LeafList(<<i>>, sh.leaves)) ELSE NoKids]

RECURSIVE AShapeSeqs(_)
\* the "a" lists of at most n objects in all
AShapeSeqs(n) ==
    {<<>>} \cup
    (IF n = 0 THEN {}
     ELSE UNION {{<<sh>> \o rest : rest \in AShapeSeqs(n - 1 - Len(sh.leaves))} :
                    sh \in AShapes(n)})

AList(shs) == [i \in 1..Len(shs) |-> AObj(i, shs[i])]

Docs ==
    {[flds |-> Flds(<<>>, h), kids |-> ("a" :> AList(shs))] :
        h \in BOOLEAN, shs \in AShapeSeqs(MaxNodes)}
    \cup {[flds |-> Flds(<<>>, h), kids |-> NoKids] : h \in BOOLEAN}

NoResponse == [flds |-> ("id" :> <<>>), kids |-> NoKids]

\* the configurations tried: field paths (the empty one included), the
\* propagate lists and the prefix keys
Paths == {<<>>, <<"a">>, <<"a", "b">>, <<"a", "b", "a">>}

PropagateLists == {<<>>, <<"x">>}

PrefixKeys == {"", "p"}

----------------------------------------------------------------------------
(* RailzNestedExtractor *)

\* a propagation that keeps a field the element already carries
PropagateKeepOwn(obj, record, pf) ==
    LET copied == {p \in Range(pf) : p \in DOMAIN obj.flds /\ p \notin DOMAIN record.flds}
    IN  [record EXCEPT !.flds =
            [k \in (DOMAIN record.flds) \cup copied |->
                IF k \in copied THEN obj.flds[k] ELSE record.flds[k]]]

\* the inner loop of _extract_records: copy every propagate field the
\* current object carries onto the element, overwriting the element's own
Propagate(obj, record, pf) ==
    LET copied == {p \in Range(pf) : p \in DOMAIN obj.flds}
    IN  [record EXCEPT !.flds =
            [k \in (DOMAIN record.flds) \cup copied |->
                IF k \in copied THEN obj.flds[k] ELSE record.flds[k]]]

RECURSIVE _extract_records(_, _, _)
RECURSIVE IterRecords(_, _, _, _, _)

\* the loop with the remaining path shared between the elements instead of
\* copied for each: the first element's descent empties it, and the later
\* elements are yielded as they are
IterRecordsSharedPath(obj, elems, i, rest, pf) ==
    IF i > Len(elems)
    THEN [err |-> FALSE, recs |-> <<>>]
    ELSE LET record == Propagate(obj, elems[i], pf)
             sub == IF rest # <<>> /\ i = 1
                    THEN _extract_records(record, rest, pf)
                    ELSE [err |-> FALSE, recs |-> <<record>>]
         IN  IF sub.err
             THEN sub
             ELSE LET more == IterRecords(obj, elems, i + 1, rest, pf)
                  IN  [err |-> more.err, recs |-> sub.recs \o more.recs]

\* the for loop of _extract_records over obj[field], from element i on.
\* Result: [err, recs]: whether an exception ended the generator, and the
\* records it yielded (before the exception, if any).
IterRecords(obj, elems, i, rest, pf) ==
    IF i > Len(elems)
    THEN [err |-> FALSE, recs |-> <<>>]
    ELSE LET record == Propagate(obj, elems[i], pf)
             sub == IF rest # <<>>
                    THEN _extract_records(record, rest, pf)
                    ELSE [err |-> FALSE, recs |-> <<record>>]
         IN  IF sub.err
             THEN sub
             ELSE LET more == IterRecords(obj, elems, i + 1, rest, pf)
                  IN  [err |-> more.err, recs |-> sub.recs \o more.recs]

\* a generator that skips an object lacking the field (obj.get(field, []))
ExtractSkipMissing(obj, nf, pf) ==
    IF nf = <<>>
    THEN [err |-> TRUE, recs |-> <<>>]
    ELSE IF Head(nf) \notin DOMAIN obj.kids
         THEN [err |-> FALSE, recs |-> <<>>]
         ELSE IterRecords(obj, obj.kids[Head(nf)], 1, Tail(nf), pf)

\* the generator _extract_records: pop(0) raises on an empty list,
\* obj[field] raises on a missing key
_extract_records(obj, nf, pf) ==
    IF nf = <<>>
    THEN [err |-> TRUE, recs |-> <<>>]
    ELSE LET field == Head(nf)
             rest == Tail(nf)
         IN  IF field \notin DOMAIN obj.kids
             THEN [err |-> TRUE, recs |-> <<>>]
             ELSE IterRecords(obj, obj.kids[field], 1, rest, pf)

\* {prefix_key: record} when a prefix key is set
Wrap(pk, record) == IF pk # "" THEN (pk :> record) ELSE record

\* extract_records: the list returned, or an exception that returns nothing
extract_records(doc, nf, pf, pk) ==
    LET gen == _extract_records(doc, nf, pf)
    IN  IF gen.err
        THEN [outcome |-> "raised", records |-> <<>>, yielded |-> gen.recs]
        ELSE [outcome |-> "returned",
              records |-> [i \in 1..Len(gen.recs) |-> Wrap(pk, gen.recs[i])],
              yielded |-> gen.recs]

\* __post_init__: the ValueError for an empty nested_fields is built and
\* dropped, never raised, so every construction succeeds
PostInitRaises(nf) == FALSE

Construct ==
    /\ ex_status = "unconstructed"
    /\ \E nf \in Paths, pf \in PropagateLists, pk \in PrefixKeys :
          /\ ~PostInitRaises(nf)
          /\ ex_status' = "constructed"
          /\ nested_fields' = nf
          /\ propagate_fields' = pf
          /\ prefix_key' = pk
    /\ UNCHANGED <<response, outcome, records, yieldedBefore>>
    /\ UNCHANGED <<slVars, auVars>>

ExtractRecords ==
    /\ ex_status = "constructed"
    /\ outcome = "none"
    /\ \E doc \in Docs :
          LET r == extract_records(doc, nested_fields, propagate_fields, prefix_key)
          IN  /\ response' = doc
              /\ outcome' = r.outcome
              /\ records' = r.records
              /\ yieldedBefore' = r.yielded
    /\ UNCHANGED <<ex_status, nested_fields, propagate_fields, prefix_key>>
    /\ UNCHANGED <<slVars, auVars>>

----------------------------------------------------------------------------
(* RailzCartesianProductStreamSlicer *)

\* Python's None, below every postedDate
None == 0

Empty == [k \in {} |-> None]

Dates == 1..MaxDate

SliceKey(bn, sn) == ("businessName" :> bn) @@ ("serviceName" :> sn)

ConnectionSlice(bn, sn) == ("slice_key" :> SliceKey(bn, sn))

\* slices without the slice_key sub-fields the slicer reads
MalformedSlices ==
    { ("start_time" :> 1),
      ("slice_key" :> ("businessName" :> "B1")),
      ("slice_key" :> ("serviceName" :> "S1")) }

\* the slices handed to update_cursor
CursorSlices ==
    { ConnectionSlice("B1", "S1"), ConnectionSlice("B1", "S2"),
      ConnectionSlice("B2", "S1") } \cup MalformedSlices

\* what update_cursor is handed without a record: a persisted state to
\* restore, or the slice about to be read
ResetArgs ==
    { Empty,
      ("B1" :> ("S1" :> Empty)),
      ("B2" :> ("S1" :> ("postedDate" :> MaxDate))),
      ConnectionSlice("B1", "S1") }

\* last_record: not given (None), or a mapping: empty, without postedDate,
\* with a null postedDate, with a postedDate
NoRecord == [given |-> FALSE, val |-> Empty]

RecordArgs ==
    {NoRecord}
    \cup {[given |-> TRUE, val |-> v] :
            v \in {Empty, ("id" :> 1)} \cup {("postedDate" :> d) : d \in {None} \cup Dates}}

\* `if last_record:` : None and the empty mapping are both false
Truthy(rec) == rec.given /\ DOMAIN rec.val # {}

\* stream_slice["slice_key"]["businessName"] / ["serviceName"] raise KeyError
SliceKeyRaises(sl) ==
    \/ "slice_key" \notin DOMAIN sl
    \/ "businessName" \notin DOMAIN sl["slice_key"]
    \/ "serviceName" \notin DOMAIN sl["slice_key"]

\* mapping.get(key, {})
Get(m, k) == IF k \in DOMAIN m THEN m[k] ELSE Empty

\* self._cursor.get(businessName, {}).get(serviceName, {}).get("postedDate")
GetPostedDate(c, bn, sn) ==
    LET e == Get(Get(c, bn), sn)
    IN  IF "postedDate" \in DOMAIN e THEN e["postedDate"] ELSE None

\* a safe_max that lets the later value win
SafeMaxLast(arg1, arg2) == IF arg2 = None THEN arg1 ELSE arg2

safe_max(arg1, arg2) ==
    IF arg1 = None THEN arg2
    ELSE IF arg2 = None THEN arg1
    ELSE IF arg1 >= arg2 THEN arg1 ELSE arg2

\* a store that rebuilds the business entry and loses its other services
StoreDropSiblings(c, bn, sn, v) ==
    [k \in (DOMAIN c) \cup {bn} |->
        IF k = bn THEN (sn :> ("postedDate" :> v)) ELSE c[k]]

\* self._cursor.setdefault(bn, {}).setdefault(sn, {})["postedDate"] = v
Store(c, bn, sn, v) ==
    LET outer == Get(c, bn)
        inner == Get(outer, sn)
        inner2 == [k \in (DOMAIN inner) \cup {"postedDate"} |->
                      IF k = "postedDate" THEN v ELSE inner[k]]
        outer2 == [k \in (DOMAIN outer) \cup {sn} |->
                      IF k = sn THEN inner2 ELSE outer[k]]
    IN  [k \in (DOMAIN c) \cup {bn} |-> IF k = bn THEN outer2 ELSE c[k]]

\* the two setdefault calls alone
SetDefaults(c, bn, sn) ==
    LET outer == Get(c, bn)
        outer2 == [k \in (DOMAIN outer) \cup {sn} |->
                      IF k = sn THEN Get(outer, sn) ELSE outer[k]]
    IN  [k \in (DOMAIN c) \cup {bn} |-> IF k = bn THEN outer2 ELSE c[k]]

\* an update_cursor that creates the entries before it reads the record
UpdateCursorEntriesFirst(c, sl, rec) ==
    IF Truthy(rec)
    THEN IF SliceKeyRaises(sl)
         THEN [raised |-> TRUE, cursor |-> c]
         ELSE LET bn == sl["slice_key"]["businessName"]
                  sn == sl["slice_key"]["serviceName"]
              IN  IF "postedDate" \notin DOMAIN rec.val
                  THEN [raised |-> TRUE, cursor |-> SetDefaults(c, bn, sn)]
                  ELSE [raised |-> FALSE,
                        cursor |-> Store(c, bn, sn,
                            safe_max(GetPostedDate(c, bn, sn), rec.val["postedDate"]))]
    ELSE [raised |-> FALSE, cursor |-> sl]

\* update_cursor: [raised, cursor].  The right-hand side of the assignment
\* (safe_max and last_record["postedDate"]) is evaluated before the target's
\* setdefault calls, so a KeyError leaves the cursor untouched.
update_cursor(c, sl, rec) ==
    IF Truthy(rec)
    THEN IF SliceKeyRaises(sl)
         THEN [raised |-> TRUE, cursor |-> c]
         ELSE LET bn == sl["slice_key"]["businessName"]
                  sn == sl["slice_key"]["serviceName"]
              IN  IF "postedDate" \notin DOMAIN rec.val
                  THEN [raised |-> TRUE, cursor |-> c]
                  ELSE [raised |-> FALSE,
                        cursor |-> Store(c, bn, sn,
                            safe_max(GetPostedDate(c, bn, sn), rec.val["postedDate"]))]
    ELSE [raised |-> FALSE, cursor |-> sl]

\* get_stream_state
get_stream_state == cursor

\* the slices the outer producer (stream_slicers[0]) may yield: well formed,
\* one with a field the inner producer's slices carry too, and one malformed
OuterSlices ==
    { ConnectionSlice("B1", "S1"),
      ("slice_key" :> SliceKey("B1", "S2")) @@ ("start_time" :> None),
      ("slice_key" :> ("businessName" :> "B1")) }

OuterSliceSeqs == UNION {[1..n -> OuterSlices] : n \in 0..MaxSlices}

\* the inner producer (stream_slicers[1]): one slice per date after the
\* postedDate of the sub-state it is given, every date without one
InnerSlices(sub) ==
    LET from == IF "postedDate" \in DOMAIN sub THEN sub["postedDate"] ELSE None
    IN  [j \in 1..(MaxDate - from) |-> ("start_time" :> from + j)]

\* a merge in which the connection slice's fields win
MergeLeftBiased(a, b) ==
    [k \in (DOMAIN a) \cup (DOMAIN b) |-> IF k \in DOMAIN a THEN a[k] ELSE b[k]]

\* connection_slice | datetime_slice
Merge(a, b) ==
    [k \in (DOMAIN a) \cup (DOMAIN b) |-> IF k \in DOMAIN b THEN b[k] ELSE a[k]]

\* stream_state.get(businessName, {}).get(serviceName, {})
SubState(state, a) ==
    Get(Get(state, a["slice_key"]["businessName"]), a["slice_key"]["serviceName"])

RECURSIVE stream_slices(_, _, _)
\* the generator stream_slices consumed to its end, from outer slice i on:
\* [raised, yielded]
stream_slices(state, as, i) ==
    IF i > Len(as)
    THEN [raised |-> FALSE, yielded |-> <<>>]
    ELSE IF SliceKeyRaises(as[i])
         THEN [raised |-> TRUE, yielded |-> <<>>]
         ELSE LET bs == InnerSlices(SubState(state, as[i]))
                  here == [j \in 1..Len(bs) |-> Merge(as[i], bs[j])]
                  rest == stream_slices(state, as, i + 1)
              IN  [raised |-> rest.raised, yielded |-> here \o rest.yielded]

NoCall ==
    [op |-> "none", slice |-> Empty, rec |-> NoRecord, raised |-> FALSE,
     state |-> Empty, outer |-> <<>>, yielded |-> <<>>]

UpdateCursor ==
    /\ \E sl \in CursorSlices \cup ResetArgs, rec \in RecordArgs :
          LET r == update_cursor(cursor, sl, rec)
          IN  /\ Truthy(rec) <=> sl \in CursorSlices
              /\ cursor' = r.cursor
              /\ before' = cursor
              /\ call' = [NoCall EXCEPT !.op = "update_cursor", !.slice = sl,
                                        !.rec = rec, !.raised = r.raised]
    /\ UNCHANGED <<exVars, auVars>>

StreamSlices ==
    /\ \E as \in OuterSliceSeqs :
          LET state == get_stream_state
              r == stream_slices(state, as, 1)
          IN  /\ call' = [NoCall EXCEPT !.op = "stream_slices", !.state = state,
                                        !.outer = as, !.raised = r.raised,
                                        !.yielded = r.yielded]
              /\ before' = cursor
    /\ UNCHANGED cursor
    /\ UNCHANGED <<exVars, auVars>>

----------------------------------------------------------------------------
(* ShortLivedTokenAuthenticator *)

\* seconds in a day: datetime.timedelta keeps days and seconds apart
SecondsPerDay == 86400

\* datetime.timedelta(days, seconds), normalised as Python does:
\* 0 <= seconds < 86400
Timedelta(d, sec) ==
    [days |-> d + (sec \div SecondsPerDay), seconds |-> sec % SecondsPerDay]

\* the lifetimes configured ("PT3600S" is the default)
Lifetimes == {"", "PT1800S", "PT3600S", "PT90000S", "P1D", "P1DT1H"}

\* _parse_timedelta: timedelta(0) for an empty string, else isodate's
\* parse_duration, which builds a timedelta from the designators
_parse_timedelta(time_str) ==
    CASE time_str = "" -> Timedelta(0, 0)
      [] time_str = "PT1800S" -> Timedelta(0, 1800)
      [] time_str = "PT3600S" -> Timedelta(0, 3600)
      [] time_str = "PT90000S" -> Timedelta(0, 90000)
      [] time_str = "P1D" -> Timedelta(1, 0)
      [] time_str = "P1DT1H" -> Timedelta(1, 3600)

\* self._token before the first fetch
NoToken == "None"

\* self._timestamp before the first fetch
NoTimestamp == 0 - 1

\* `not self._token`
Falsy(tok) == tok = NoToken \/ tok = ""

\* what the token endpoint answers: a body with the token key (the token
\* may be empty), a body without it, an HTTP error
Responses ==
    {[status |-> "ok", token |-> t] : t \in {"tokA", "tokB", ""}}
    \cup {[status |-> "no_key", token |-> ""], [status |-> "http_error", token |-> ""]}

\* check_token with the endpoint answering resp when asked:
\* [fetched, raised, token, timestamp]
check_token(tok, ts, t, life, resp) ==
    LET td == _parse_timedelta(life)
    IN  IF Falsy(tok) \/ t - ts >= td.seconds
        THEN IF resp.status = "ok"
             THEN [fetched |-> TRUE, raised |-> FALSE, token |-> resp.token, timestamp |-> t]
             ELSE [fetched |-> TRUE, raised |-> TRUE, token |-> tok, timestamp |-> ts]
        ELSE [fetched |-> FALSE, raised |-> FALSE, token |-> tok, timestamp |-> ts]

NoRead ==
    [op |-> "none", fetched |-> FALSE, raised |-> FALSE, bearer |-> NoToken,
     tokenBefore |-> NoToken, timestampBefore |-> NoTimestamp]

\* __post_init__
ConstructAuth ==
    /\ auth_status = "unconstructed"
    /\ \E life \in Lifetimes : lifetime' = life
    /\ auth_status' = "constructed"
    /\ token' = NoToken
    /\ timestamp' = NoTimestamp
    /\ UNCHANGED <<now, ticks, read>>
    /\ UNCHANGED <<exVars, slVars>>

\* the clock advances
Tick ==
    /\ ticks < MaxTicks
    /\ \E d \in {1800, 3600, SecondsPerDay} : now' = now + d
    /\ ticks' = ticks + 1
    /\ UNCHANGED <<auth_status, lifetime, token, timestamp, read>>
    /\ UNCHANGED <<exVars, slVars>>

\* the token property: check_token, then "Bearer <token>"
Token ==
    /\ auth_status = "constructed"
    /\ \E resp \in Responses :
          LET r == check_token(token, timestamp, now, lifetime, resp)
          IN  /\ token' = r.token
              /\ timestamp' = r.timestamp
              /\ read' = [op |-> "token", fetched |-> r.fetched, raised |-> r.raised,
                          bearer |-> IF r.raised THEN NoToken ELSE r.token,
                          tokenBefore |-> token, timestampBefore |-> timestamp]
    /\ UNCHANGED <<auth_status, lifetime, now, ticks>>
    /\ UNCHANGED <<exVars, slVars>>

----------------------------------------------------------------------------
(* Properties of ShortLivedTokenAuthenticator *)

\* the length in seconds of the duration an ISO-8601 string denotes, its
\* days included
LifetimeSeconds(life) ==
    CASE life = "" -> 0
      [] life = "PT1800S" -> 1800
      [] life = "PT3600S" -> 3600
      [] life = "PT90000S" -> 90000
      [] life = "P1D" -> SecondsPerDay
      [] life = "P1DT1H" -> SecondsPerDay + 3600

\* C10 (as claimed): a read earlier than one lifetime after the last
\* successful fetch returns the cached token without fetching, for every
\* lifetime, those of a day or more included; a read at or after one
\* lifetime fetches once; a failed fetch leaves token and timestamp alone.
C10_CachedUntilExpiry ==
    (read.op = "token" /\ ~Falsy(read.tokenBefore)) =>
        /\ now - read.timestampBefore < LifetimeSeconds(lifetime) =>
              /\ ~read.fetched
              /\ read.bearer = read.tokenBefore
        /\ now - read.timestampBefore >= LifetimeSeconds(lifetime) => read.fetched
        /\ read.raised =>
              /\ token = read.tokenBefore
              /\ timestamp = read.timestampBefore

----------------------------------------------------------------------------
(* Properties of RailzNestedExtractor *)

\* the record inside the prefix wrapping
Unwrap(r) == IF prefix_key # "" THEN r[prefix_key] ELSE r

OutIds == [i \in 1..Len(records) |-> Unwrap(records[i]).flds["id"]]

RECURSIVE ValidIndexPath(_, _, _)
\* p indexes an element at every level of the path below obj
ValidIndexPath(obj, path, p) ==
    \/ path = <<>>
    \/ /\ Head(path) \in DOMAIN obj.kids
       /\ Head(p) \in 1..Len(obj.kids[Head(path)])
       /\ ValidIndexPath(obj.kids[Head(path)][Head(p)], Tail(path), Tail(p))

\* the index paths of the leaves the path reaches in the document
LeafIds(doc, path) ==
    {p \in [1..Len(path) -> 1..MaxNodes] : ValidIndexPath(doc, path, p)}

RECURSIVE LexLess(_, _)
LexLess(p, q) ==
    /\ p # <<>>
    /\ q # <<>>
    /\ \/ Head(p) < Head(q)
       \/ Head(p) = Head(q) /\ LexLess(Tail(p), Tail(q))

RECURSIVE MissingSegment(_, _)
\* some object the descent reaches lacks the path segment of its level
MissingSegment(obj, path) ==
    /\ path # <<>>
    /\ \/ Head(path) \notin DOMAIN obj.kids
       \/ /\ Tail(path) # <<>>
          /\ \E i \in 1..Len(obj.kids[Head(path)]) :
                MissingSegment(obj.kids[Head(path)][i], Tail(path))

\* C4 (as claimed): an empty field path fails at construction, so no
\* constructed extractor has an empty path and extract_records never runs
\* with one.
C4_NoEmptyPathExtractor ==
    /\ ex_status = "constructed" => nested_fields # <<>>
    /\ outcome # "none" => nested_fields # <<>>

ABCase ==
    /\ outcome = "returned"
    /\ nested_fields = <<"a", "b">>
    /\ propagate_fields = <<"x">>

\* the a-level object, in the input document, above output record i
AInput(i) == response.kids["a"][Head(OutIds[i])]

\* C5 (as claimed): with path ["a","b"] and propagate ["x"], every output
\* record whose a-level object carries x in the input has x equal to that
\* a-level object's input value of x.
C5_XFromALevelInput ==
    ABCase =>
        \A i \in 1..Len(records) :
            "x" \in DOMAIN AInput(i).flds =>
                /\ "x" \in DOMAIN Unwrap(records[i]).flds
                /\ Unwrap(records[i]).flds["x"] = AInput(i).flds["x"]

\* C5 (amended): with path ["a","b"] and propagate ["x"], every output
\* record whose a-level object carries x in the input has x equal to the
\* root's input value of x when the root carries x (it is copied onto the
\* a-level objects first), and to the a-level object's input value of x
\* otherwise; the leaf's own x is overwritten in both cases.
C5_XFromOutermostAncestor ==
    ABCase =>
        \A i \in 1..Len(records) :
            "x" \in DOMAIN AInput(i).flds =>
                /\ "x" \in DOMAIN Unwrap(records[i]).flds
                /\ Unwrap(records[i]).flds["x"] =
                      IF "x" \in DOMAIN response.flds
                      THEN response.flds["x"]
                      ELSE AInput(i).flds["x"]

\* a leaf that carried its own x was overwritten with its a-level object's
C5_Witness ==
    /\ ABCase
    /\ "x" \notin DOMAIN response.flds
    /\ \E i \in 1..Len(records) :
          LET id == OutIds[i]
          IN  /\ "x" \in DOMAIN AInput(i).flds
              /\ "x" \in DOMAIN AInput(i).kids["b"][id[2]].flds
              /\ Unwrap(records[i]).flds["x"] = <<id[1]>>

\* C6: for every field path of length >= 1 the returned list holds the
\* leaves in depth-first document order: the index paths of the output are
\* strictly increasing in lexicographic order, and they are exactly the
\* index paths of the leaves of the document, none dropped, none repeated.
C6_DocumentOrder ==
    (outcome = "returned" /\ Len(nested_fields) >= 1) =>
        /\ \A i, j \in 1..Len(records) : i < j <=> LexLess(OutIds[i], OutIds[j])
        /\ Range(OutIds) = LeafIds(response, nested_fields)
        /\ Len(records) = Cardinality(LeafIds(response, nested_fields))

\* leaves below two different a-level objects, two of them below one
C6_Witness ==
    /\ outcome = "returned"
    /\ nested_fields = <<"a", "b">>
    /\ Len(records) >= 3
    /\ OutIds[1][1] = OutIds[2][1]
    /\ OutIds[2][1] # OutIds[3][1]

\* C7: when an object reached by the descent lacks the segment of its
\* level, extract_records raises and returns no record, not even the
\* leaves the generator had yielded before it reached that object.
C7_MissingSegmentRaises ==
    (outcome # "none" /\ MissingSegment(response, nested_fields)) =>
        /\ outcome = "raised"
        /\ records = <<>>

\* leaves had been yielded when the offending object was reached
C7_Witness ==
    /\ outcome = "raised"
    /\ MissingSegment(response, nested_fields)
    /\ yieldedBefore # <<>>
    /\ records = <<>>

----------------------------------------------------------------------------
(* Properties of RailzCartesianProductStreamSlicer *)

Businesses == {"B1", "B2"}

Services == {"S1", "S2"}

HasPair(c, b, s) == b \in DOMAIN c /\ s \in DOMAIN c[b]

\* the entry of a pair, told apart from no entry
Entry(c, b, s) ==
    IF HasPair(c, b, s)
    THEN [present |-> TRUE, val |-> c[b][s]]
    ELSE [present |-> FALSE, val |-> Empty]

\* no pair is removed and no pair's postedDate decreases (None lowest)
MovedForward ==
    \A b \in Businesses, s \in Services :
        /\ HasPair(before, b, s) => HasPair(cursor, b, s)
        /\ GetPostedDate(cursor, b, s) >= GetPostedDate(before, b, s)

\* C1 (as claimed): under any update_cursor call, with or without a record,
\* no pair's stored postedDate decreases and no pair is removed.
C1_CursorOnlyForward ==
    call.op = "update_cursor" => MovedForward

\* C1 (amended): under every update_cursor call that carries a non-empty
\* record no pair's stored postedDate decreases and no pair is removed; a
\* call without a record (or with an empty one) replaces the cursor by the
\* given mapping and may lower or remove entries.
C1_ForwardUnderRecords ==
    (call.op = "update_cursor" /\ Truthy(call.rec)) => MovedForward

CallBn == call.slice["slice_key"]["businessName"]

CallSn == call.slice["slice_key"]["serviceName"]

\* a record older than the stored value arrived and the value stayed
C1_Witness ==
    /\ call.op = "update_cursor"
    /\ Truthy(call.rec)
    /\ ~call.raised
    /\ call.rec.val["postedDate"] # None
    /\ call.rec.val["postedDate"] < GetPostedDate(before, CallBn, CallSn)
    /\ GetPostedDate(cursor, CallBn, CallSn) = GetPostedDate(before, CallBn, CallSn)

RecordCase ==
    /\ call.op = "update_cursor"
    /\ Truthy(call.rec)
    /\ "postedDate" \in DOMAIN call.rec.val
    /\ ~SliceKeyRaises(call.slice)

\* C2: update_cursor with a record stores, for the slice's pair, the
\* null-safe maximum of the stored postedDate and the record's: the
\* record's when none was stored, the greater when both are present (the
\* stored one when the record's is null); every other pair's entry and
\* every other key of the cursor is unchanged.
C2_NullSafeMaxStored ==
    RecordCase =>
        LET old == GetPostedDate(before, CallBn, CallSn)
            new == call.rec.val["postedDate"]
        IN  /\ ~call.raised
            /\ HasPair(cursor, CallBn, CallSn)
            /\ "postedDate" \in DOMAIN cursor[CallBn][CallSn]
            /\ LET res == cursor[CallBn][CallSn]["postedDate"]
               IN  /\ old = None => res = new
                   /\ new = None => res = old
                   /\ (old # None /\ new # None) =>
                         /\ res \in {old, new}
                         /\ res >= old
                         /\ res >= new
            /\ \A b \in Businesses, s \in Services :
                  <<b, s>> # <<CallBn, CallSn>> =>
                      Entry(cursor, b, s) = Entry(before, b, s)
            /\ \A k \in ((DOMAIN cursor) \cup (DOMAIN before)) \ {CallBn} :
                  /\ k \in DOMAIN cursor
                  /\ k \in DOMAIN before
                  /\ cursor[k] = before[k]

\* a newer record replaced the stored value while the business had another
\* service stored beside it
C2_Witness ==
    /\ RecordCase
    /\ GetPostedDate(before, CallBn, CallSn) # None
    /\ call.rec.val["postedDate"] > GetPostedDate(before, CallBn, CallSn)
    /\ cursor[CallBn][CallSn]["postedDate"] = call.rec.val["postedDate"]
    /\ \E s \in Services \ {CallSn} : HasPair(before, CallBn, s)

\* the sub-state of outer slice k: state[businessName][serviceName], the
\* empty mapping when that entry is absent
OuterSubState(k) ==
    LET a == call.outer[k]
        bn == a["slice_key"]["businessName"]
        sn == a["slice_key"]["serviceName"]
    IN  IF HasPair(call.state, bn, sn) THEN call.state[bn][sn] ELSE Empty

\* the number of inner slices of outer slice k
Count(k) == Len(InnerSlices(OuterSubState(k)))

RECURSIVE Offset(_)
\* the number of slices yielded before those of outer slice k
Offset(k) == IF k = 1 THEN 0 ELSE Offset(k - 1) + Count(k - 1)

\* C3: stream_slices yields, for each outer slice a in order, the inner
\* slices b computed under a's sub-state, in order, each as a merged with b
\* where b's fields win; the slices of one outer slice are contiguous and
\* the total is the sum of the inner counts.
C3_CartesianProduct ==
    (call.op = "stream_slices"
        /\ \A k \in 1..Len(call.outer) : ~SliceKeyRaises(call.outer[k])) =>
        /\ ~call.raised
        /\ Len(call.yielded) = Offset(Len(call.outer) + 1)
        /\ \A k \in 1..Len(call.outer) : \A j \in 1..Count(k) :
              LET y == call.yielded[Offset(k) + j]
                  a == call.outer[k]
                  b == InnerSlices(OuterSubState(k))[j]
              IN  /\ DOMAIN y = (DOMAIN a) \cup (DOMAIN b)
                  /\ \A f \in DOMAIN b : y[f] = b[f]
                  /\ \A f \in (DOMAIN a) \ (DOMAIN b) : y[f] = a[f]

\* two outer slices with different numbers of inner slices, one of them
\* carrying a field of the inner slices
C3_Witness ==
    /\ call.op = "stream_slices"
    /\ ~call.raised
    /\ Len(call.outer) = 2
    /\ "start_time" \in DOMAIN call.outer[1]
    /\ "start_time" \notin DOMAIN call.outer[2]
    /\ Count(1) > 1
    /\ Count(2) > 0
    /\ Count(1) # Count(2)

\* C8 (as claimed): update_cursor with a record whose postedDate is null
\* leaves the whole cursor mapping as it was, for every prior cursor.
C8_NullRecordNoOp ==
    (call.op = "update_cursor"
        /\ Truthy(call.rec)
        /\ "postedDate" \in DOMAIN call.rec.val
        /\ call.rec.val["postedDate"] = None) =>
        cursor = before

\* the first outer slice without the slice_key sub-fields
FirstMalformed ==
    CHOOSE k \in 1..Len(call.outer) :
        /\ SliceKeyRaises(call.outer[k])
        /\ \A i \in 1..(k - 1) : ~SliceKeyRaises(call.outer[i])

----------------------------------------------------------------------------

Init ==
    /\ ex_status = "unconstructed"
    /\ nested_fields = <<>>
    /\ propagate_fields = <<>>
    /\ prefix_key = ""
    /\ response = NoResponse
    /\ outcome = "none"
    /\ records = <<>>
    /\ yieldedBefore = <<>>
    /\ cursor = Empty
    /\ before = Empty
    /\ call = NoCall
    /\ auth_status = "unconstructed"
    /\ lifetime = "PT3600S"
    /\ token = NoToken
    /\ timestamp = NoTimestamp
    /\ now = 0
    /\ ticks = 0
    /\ read = NoRead

NextExtractor ==
    \/ Construct
    \/ ExtractRecords

SpecExtractor == Init /\ [][NextExtractor]_vars

NextSlicer ==
    \/ UpdateCursor
    \/ StreamSlices

SpecSlicer == Init /\ [][NextSlicer]_vars

NextAuth ==
    \/ ConstructAuth
    \/ Tick
    \/ Token

SpecAuth == Init /\ [][NextAuth]_vars

====
